---- MODULE Spec2Model ----
(***************************************************************************)
(* A model of backend/api.py: the browser crawler                          *)
(* (_scrape_with_browser_sync), the /initialize, /remove-url and           *)
(* /clear-knowledge-base handlers, GET /knowledge-base, the loaded_urls    *)
(* registry, the knowledge_loaded flag and the Qdrant collection they act  *)
(* on.                                                                     *)
(*                                                                         *)
(* Four specifications share the definitions:                              *)
(*   SpecCrawl  one call of _scrape_with_browser_sync, stepped one         *)
(*              scrape_page activation at a time, the pages served by the  *)
(*              web chosen at each fetch;                                  *)
(*   Spec       the handlers, one request at a time;                       *)
(*   SpecConc   the handlers, two /initialize interleaved at their awaits  *)
(*              with each other and with the other handlers;               *)
(*   SpecScan   the scan loop of remove_url or clear_knowledge_base, a     *)
(*              turn at a time, against a store stub.                      *)
(* SpecCrawlLive and SpecScanLive add weak fairness for the termination    *)
(* properties.                                                             *)
(***************************************************************************)
EXTENDS Integers, Sequences, FiniteSets, TLC

\* ------------------------------------------------------------------ values

\* A URL as urlparse sees it: scheme, netloc and path.
Url(s, n, p) == [scheme |-> s, netloc |-> n, path |-> p]

Schemes == {"http", "https"}
Netlocs == {"a", "b"}
Paths   == {"/", "/x"}
Urls    == {Url(s, n, p) : s \in Schemes, n \in Netlocs, p \in Paths}

\* No URL at all (Python's None where a URL is expected).
NoUrl == Url("", "", "")

U1 == Url("http", "a", "/")
U2 == Url("http", "a", "/x")

\* The href attribute of an anchor: an absolute URL ("http..."), a path
\* ("/..."), or anything else ("#top", "mailto:", "page.html").
AbsHref(u)   == [kind |-> "abs", scheme |-> u.scheme, netloc |-> u.netloc, path |-> u.path]
RelHref(p)   == [kind |-> "rel", scheme |-> "", netloc |-> "", path |-> p]
OtherHref    == [kind |-> "other", scheme |-> "", netloc |-> "", path |-> ""]

\* The hrefs the modelled web uses: both paths, the https twin of U2, a page
\* of another host, and one href that is neither absolute nor a path.
Hrefs ==
    { RelHref("/"), RelHref("/x"),
      AbsHref(Url("https", "a", "/x")),
      AbsHref(Url("http", "b", "/")),
      OtherHref }

\* Most anchors a page of the modelled web carries.
MaxAnchors == 2

SeqsUpTo(S, n) == UNION { [1..k -> S] : k \in 0..n }

\* Lengths of a page's cleaned text: a shell page, the threshold itself and one
\* character more.
TextLens == {10, 50, 51}

\* What page.goto / page.content deliver for one fetch: a rendered page, or
\* an exception raised by new_page ("new_page") or by goto ("goto").
OkPage(t, l) == [result |-> "ok", text |-> t, links |-> l]
FailPage(at) == [result |-> at, text |-> 0, links |-> <<>>]
Pages ==
    { OkPage(t, l) : t \in TextLens, l \in SeqsUpTo(Hrefs, MaxAnchors) }
        \cup { FailPage("new_page"), FailPage("goto") }

\* ------------------------------------------------------------------ crawler

\* len(text_content) > 50
MinTextLen == 50

Substantial(text) == text > MinTextLen

Min(a, b) == IF a < b THEN a ELSE b

\* links[:max_links]
Prefix(s, n) == SubSeq(s, 1, Min(Len(s), n))

\* The absolute URL scrape_page builds for an href, or NoUrl when the href is
\* skipped (the "continue" branch): NoUrl.
Resolve(href, page_url) ==
    CASE href.kind = "abs" -> Url(href.scheme, href.netloc, href.path)
      [] href.kind = "rel" -> Url(page_url.scheme, page_url.netloc, href.path)
      [] OTHER             -> NoUrl

\* urlparse(absolute_url).netloc == urlparse(page_url).netloc
SameDomain(absolute_url, page_url) == absolute_url.netloc = page_url.netloc

\* A document dictionary: 'url', meta_data['depth'] and the length of
\* 'content' (the name and the title do not bear on any property here).
Doc(u, d, t) == [url |-> u, depth |-> d, text |-> t]

\* One fetch attempt, as a stub of the browser would count it: the URL, the
\* depth of the activation, how many anchors the page served carried, and
\* whether the fetch delivered a page ("ok") or raised ("new_page", "goto").
Fetch(u, d, n, res) == [url |-> u, depth |-> d, anchors |-> n, result |-> res]

Frame(k, u, d, l) == [kind |-> k, url |-> u, depth |-> d, links |-> l]

\* The state of one _scrape_with_browser_sync call before the browser is
\* launched.
CrawlNew(url, max_links, max_depth) ==
    [ url          |-> url,
      max_links    |-> max_links,
      max_depth    |-> max_depth,
      status       |-> "new",
      browser      |-> "none",
      pages        |-> 0,
      documents    |-> <<>>,
      visited_urls |-> {},
      fetches      |-> <<>>,
      stack        |-> <<>> ]

LaunchAtDepthOne(st, ok) ==
    IF ok
    THEN [st EXCEPT !.status = "running", !.browser = "open",
                    !.stack = <<Frame("call", st.url, 1, <<>>)>>]
    ELSE [st EXCEPT !.status = "raised"]

\* sync_playwright() / chromium.launch, then scrape_page(url, depth=0) is
\* called; a failed launch raises out of the function.
Launch(st, ok) ==
    IF ok
    THEN [st EXCEPT !.status = "running", !.browser = "open",
                    !.stack = <<Frame("call", st.url, 0, <<>>)>>]
    ELSE [st EXCEPT !.status = "raised"]

Top(st) == st.stack[Len(st.stack)]
Pop(st) == [st EXCEPT !.stack = SubSeq(st.stack, 1, Len(st.stack) - 1)]

CaughtReraised(st) == [st EXCEPT !.status = "raised", !.stack = <<>>]

\* "except Exception as e: print(...)": the activation of scrape_page ends
\* and its caller goes on.
Caught(st) == Pop(st)

SkipPageDepthOnly(st, page_url, depth) == depth > st.max_depth

\* if depth > max_depth or page_url in visited_urls: return
SkipPage(st, page_url, depth) ==
    depth > st.max_depth \/ page_url \in st.visited_urls

\* if depth < max_depth and len(documents) < max_links * 2
FollowLinks(st, depth) ==
    depth < st.max_depth /\ Len(st.documents) < st.max_links * 2

\* One activation of scrape_page up to its link loop: the guard, the fetch,
\* the extraction and the decision to follow links.
ScrapePage(st, page) ==
    LET f == Top(st) IN
    IF SkipPage(st, f.url, f.depth) THEN Pop(st)
    ELSE
      LET seen == [st EXCEPT !.visited_urls = @ \cup {f.url},
                             !.fetches = Append(@, Fetch(f.url, f.depth, Len(page.links),
                                                        page.result))]
      IN
      CASE page.result = "new_page" -> Caught(seen)
        [] page.result = "goto" -> Caught([seen EXCEPT !.pages = @ + 1])
        [] OTHER ->
             LET got == IF Substantial(page.text)
                        THEN [seen EXCEPT !.documents =
                                 Append(@, Doc(f.url, f.depth, page.text))]
                        ELSE seen
             IN
             IF FollowLinks(got, f.depth)
             THEN [got EXCEPT !.pages = @ + 1,
                              !.stack[Len(st.stack)] =
                                  Frame("loop", f.url, f.depth,
                                        Prefix(page.links, st.max_links))]
             ELSE Pop(got)

FollowLinkKeepsLink(st) ==
    LET f == Top(st) IN
    IF f.links = <<>> THEN Pop([st EXCEPT !.pages = @ - 1])
    ELSE
      LET absolute_url == Resolve(Head(f.links), f.url) IN
      IF absolute_url # NoUrl /\ SameDomain(absolute_url, f.url)
      THEN [st EXCEPT !.stack = Append(@, Frame("call", absolute_url, f.depth + 1, <<>>))]
      ELSE [st EXCEPT !.stack[Len(st.stack)].links = Tail(f.links)]

\* One turn of "for link in links[:max_links]", or page.close() after the
\* last one.
FollowLink(st) ==
    LET f == Top(st) IN
    IF f.links = <<>> THEN Pop([st EXCEPT !.pages = @ - 1])
    ELSE
      LET href == Head(f.links)
          absolute_url == Resolve(href, f.url)
          rest == [st EXCEPT !.stack[Len(st.stack)].links = Tail(f.links)]
      IN
      IF absolute_url # NoUrl /\ SameDomain(absolute_url, f.url)
      THEN [rest EXCEPT !.stack = Append(@, Frame("call", absolute_url, f.depth + 1, <<>>))]
      ELSE rest

ReturnLeavesOpen(st) == [st EXCEPT !.status = "returned"]

\* browser.close() and "return documents".
Return(st) == [st EXCEPT !.status = "returned", !.browser = "closed", !.pages = 0]

\* The whole of _scrape_with_browser_sync on a web that serves web[u] for u:
\* the activations of scrape_page run to the end, then browser.close().
RECURSIVE RunCrawl(_, _)
RunCrawl(st, web) ==
    IF st.status # "running" THEN st
    ELSE IF st.stack = <<>> THEN Return(st)
    ELSE IF Top(st).kind = "call"
         THEN RunCrawl(ScrapePage(st, web[Top(st).url]), web)
         ELSE RunCrawl(FollowLink(st), web)

ScrapeWithBrowserSync(url, max_links, max_depth, launch_ok, web) ==
    RunCrawl(Launch(CrawlNew(url, max_links, max_depth), launch_ok), web)

\* -------------------------------------------------------------- the store

\* limit=100 of both scan loops, scaled down so that a scan of a few points
\* spans several pages.
ScrollLimit == 2

\* Most points the collection holds.
MaxPoints == 3

PointIds == 1..MaxPoints

\* offset=None: scroll from the first point.
NoOffset == 0

Point(i, u) == [id |-> i, url |-> u]

IdsOf(pts) == { p.id : p \in pts }

RECURSIVE SortedIds(_)
SortedIds(ids) ==
    IF ids = {} THEN <<>>
    ELSE LET m == CHOOSE i \in ids : \A j \in ids : i <= j
         IN <<m>> \o SortedIds(ids \ {m})

\* client.scroll(limit, offset): the points from id `offset` on in id order,
\* at most `limit` of them, and the id the next page starts at (NoOffset when
\* no point is left).
Scroll(pts, limit, offset) ==
    LET ids == SortedIds({ i \in IdsOf(pts) : i >= offset })
        n   == Min(Len(ids), limit)
    IN [ points |-> [ k \in 1..n |-> CHOOSE p \in pts : p.id = ids[k] ],
         next_page_offset |-> IF Len(ids) > limit THEN ids[limit + 1] ELSE NoOffset ]

\* client.delete(points_selector=ids): ids that are not there are ignored.
Delete(pts, ids) == { p \in pts : p.id \notin ids }

RaisesNever(k, fail_at) == FALSE

\* The k-th call of the store made by a handler raises when k = fail_at
\* (0: none does). A scroll of a collection that was never created raises as
\* well: get_knowledge_base wraps client.get_collection in a try for that
\* case, remove_url and clear_knowledge_base have no such guard.
Raises(k, fail_at) == k = fail_at

SeqRange(s) == { s[k] : k \in 1..Len(s) }

\* What a scan loop holds before its first scroll has returned.
NoResult == [points |-> <<>>, next_page_offset |-> NoOffset]

\* Most points of the collections the scan loops are run against on their own.
MaxScanPoints == 5

\* The client calls of one handler are counted up to MaxCalls, which no scan
\* under a store with advancing cursors reaches; so are the ids clear collects
\* up to MaxCollected.
MaxCalls == 2 * MaxScanPoints + 2
MaxCollected == 2 * MaxScanPoints

\* The locals of a scan loop, with the collection it runs against. `at` is
\* where the loop stands: before a scroll, with the page a scroll returned, or
\* past its break. `calls` counts the client calls made; `examined` holds the
\* ids of the points the loop has looked at and `repeated` those it has looked
\* at more than once.
ScanNew(exists, pts) ==
    [ exists |-> exists, points |-> pts, offset |-> NoOffset,
      scroll_result |-> NoResult, at |-> "scroll",
      deleted_count |-> 0, all_point_ids |-> <<>>,
      examined |-> {}, repeated |-> {}, calls |-> 0, raised |-> FALSE ]

Called(sc) == [sc EXCEPT !.calls = IF @ < MaxCalls THEN @ + 1 ELSE @]

Examine(sc, ids) ==
    [sc EXCEPT !.repeated = @ \cup (sc.examined \cap ids), !.examined = @ \cup ids]

\* all_point_ids.extend(...)
Extend(all_point_ids, ids) ==
    IF Len(all_point_ids) >= MaxCollected THEN all_point_ids ELSE all_point_ids \o ids

MatchingIdsAll(page, url) == { page[k].id : k \in 1..Len(page) }

\* for point in points: if point_url == url: point_ids_to_delete.append(point.id)
MatchingIds(page, url) == { page[k].id : k \in { j \in 1..Len(page) : page[j].url = url } }

PageIds(page) == [ k \in 1..Len(page) |-> page[k].id ]

NextOffsetNone(sc, res) == NoOffset

NextOffsetSkipsOne(sc, res) ==
    IF res.next_page_offset = NoOffset THEN NoOffset ELSE res.next_page_offset + 1

\* offset = scroll_result[1]
NextOffset(sc, res) == res.next_page_offset

\* "scroll_result = client.scroll(..., offset=offset, ...)", res being what
\* the store returns when the call does not raise.
ScrollCall(sc, fail_at, res) ==
    LET scrolled == Called(sc) IN
    IF ~sc.exists \/ Raises(scrolled.calls, fail_at)
    THEN [scrolled EXCEPT !.raised = TRUE]
    ELSE [scrolled EXCEPT !.scroll_result = res, !.at = "page"]

\* The rest of one turn of remove_url's "while True": the break on an empty
\* page, the matching ids, their delete, the new offset and the break on None.
RemovePage(sc, url, fail_at) ==
    LET res  == sc.scroll_result
        seen == Examine(sc, SeqRange(PageIds(res.points)))
        ids  == MatchingIds(res.points, url)
    IN
    IF res.points = <<>> THEN [sc EXCEPT !.at = "done"]
    ELSE IF ids # {} /\ Raises(Called(seen).calls, fail_at)
    THEN [Called(seen) EXCEPT !.raised = TRUE]
    ELSE
      LET done == IF ids = {} THEN seen
                  ELSE [Called(seen) EXCEPT !.points = Delete(@, ids),
                                            !.deleted_count = @ + Cardinality(ids)]
          next == [done EXCEPT !.offset = NextOffset(sc, res)]
      IN [next EXCEPT !.at = IF next.offset = NoOffset THEN "done" ELSE "scroll"]

\* The rest of one turn of clear_knowledge_base's "while True": it only
\* collects ids.
ClearPage(sc) ==
    LET res == sc.scroll_result IN
    IF res.points = <<>> THEN [sc EXCEPT !.at = "done"]
    ELSE
      LET next == [Examine(sc, SeqRange(PageIds(res.points))) EXCEPT
                       !.all_point_ids = Extend(@, PageIds(res.points)),
                       !.offset = NextOffset(sc, res)]
      IN [next EXCEPT !.at = IF next.offset = NoOffset THEN "done" ELSE "scroll"]

\* The "while True" loop of remove_url against the collection itself, from
\* where it stands to its break or to the store call that raises.
RECURSIVE RemoveScan(_, _, _)
RemoveScan(sc, url, fail_at) ==
    IF sc.raised \/ sc.at = "done" THEN sc
    ELSE IF sc.at = "scroll"
    THEN RemoveScan(ScrollCall(sc, fail_at, Scroll(sc.points, ScrollLimit, sc.offset)),
                    url, fail_at)
    ELSE RemoveScan(RemovePage(sc, url, fail_at), url, fail_at)

\* The "while True" loop of clear_knowledge_base against the collection itself.
RECURSIVE ClearScan(_, _)
ClearScan(sc, fail_at) ==
    IF sc.raised \/ sc.at = "done" THEN sc
    ELSE IF sc.at = "scroll"
    THEN ClearScan(ScrollCall(sc, fail_at, Scroll(sc.points, ScrollLimit, sc.offset)),
                   fail_at)
    ELSE ClearScan(ClearPage(sc), fail_at)

\* "if all_point_ids: client.delete(PointIdsList(points=all_point_ids))"
ClearDelete(sc, fail_at) ==
    IF sc.raised \/ sc.all_point_ids = <<>> THEN sc
    ELSE IF Raises(Called(sc).calls, fail_at)
    THEN [Called(sc) EXCEPT !.raised = TRUE]
    ELSE [Called(sc) EXCEPT !.points = Delete(@, SeqRange(sc.all_point_ids)),
                            !.deleted_count = Len(sc.all_point_ids)]

\* Which store call of a handler raises: none (0) or one of the calls a scan
\* of a full collection can make.
FailAts == 0..(2 * MaxPoints)

\* ------------------------------------------------------------------ state

VARIABLES
    loaded_urls,       \* the module-level list loaded_urls
    knowledge_loaded,  \* the module-level flag knowledge_loaded
    collection,        \* the Qdrant collection "website-content"
    req,               \* the /initialize coroutines, each at one of its awaits
    response,          \* what the handler that finished last answered
    crawl,             \* one _scrape_with_browser_sync call (SpecCrawl)
    scan               \* one scan loop and the store it runs against (SpecScan)

vars == <<loaded_urls, knowledge_loaded, collection, req, response, crawl, scan>>

api_vars == <<loaded_urls, knowledge_loaded, collection, req, response>>

Reqs == {"r1", "r2"}

\* request.url as it arrives: a URL, blank, or a URL of another scheme.
FtpUrl == Url("ftp", "a", "/")
RequestUrls == {U1, U2, NoUrl, FtpUrl}

\* A coroutine of initialize_knowledge: where it waits (pc), its locals url,
\* browser_docs, documents and use_browser, and the index of the document the
\* "for doc in documents" loop is at. `fresh` is not a local: it records that
\* the collection held no point of `url` when the request arrived.
Idle ==
    [ pc |-> "idle", url |-> NoUrl, browser_docs |-> <<>>, documents |-> <<>>,
      use_browser |-> FALSE, next |-> 0, fresh |-> FALSE ]

\* A handler's answer: the status code, what it is about, and the count its
\* message carries. `fresh` and `calls` are not part of the answer: on a
\* successful /initialize `fresh` records that the collection held no point of
\* `url` when the request arrived, and `calls` is the number of QdrantClient
\* calls (get_collection, scroll, delete) the handler made before answering.
Response(op, url, status, detail, count, use_browser, fresh) ==
    [ op |-> op, url |-> url, status |-> status, detail |-> detail,
      count |-> count, use_browser |-> use_browser, fresh |-> fresh, calls |-> 0 ]

WithCalls(resp, calls) == [resp EXCEPT !.calls = calls]

NoResponse == Response("none", NoUrl, 0, "", 0, FALSE, FALSE)

PointsOf(pts, url) == { p \in pts : p.url = url }

AllIdle == \A r \in Reqs : req[r].pc = "idle"

InitApi ==
    /\ loaded_urls = <<>>
    /\ knowledge_loaded = FALSE
    /\ collection = [exists |-> FALSE, points |-> {}]
    /\ req = [r \in Reqs |-> Idle]
    /\ response = NoResponse

\* ------------------------------------------------------------- /initialize

\* The pages the web serves while a handler crawls: a failed fetch, or a page
\* at or above the threshold with at most one anchor, to "/" or to "/x".
ApiPages ==
    { OkPage(t, l) : t \in {50, 51}, l \in SeqsUpTo({RelHref("/"), RelHref("/x")}, 1) }
        \cup { FailPage("goto") }
ApiWebs == [{U1, U2} -> ApiPages]

\* scrape_with_browser(url, max_links=2, max_depth=3)
MaxLinksArg == 2
MaxDepthArg == 3

\* Most documents website_reader.async_read returns.
MaxReaderDocs == 2

\* url.startswith(("http://", "https://"))
ValidScheme(url) == url.scheme \in {"http", "https"}

\* The handler up to "await scrape_with_browser(url, max_links=2, max_depth=3)".
Initialize(r, url) ==
    /\ req[r].pc = "idle"
    /\ IF url = NoUrl
       THEN /\ response' = Response("initialize", url, 400, "URL cannot be empty", 0, FALSE, FALSE)
            /\ req' = req
       ELSE IF ~ValidScheme(url)
       THEN /\ response' = Response("initialize", url, 400, "URL must start with http", 0, FALSE, FALSE)
            /\ req' = req
       ELSE /\ req' = [req EXCEPT ![r] =
                         [Idle EXCEPT !.pc = "crawl", !.url = url,
                                      !.fresh = PointsOf(collection.points, url) = {}]]
            /\ response' = response
    /\ UNCHANGED <<loaded_urls, knowledge_loaded, collection, crawl, scan>>

\* "if browser_docs: documents = browser_docs; use_browser = True"; an
\* exception of the scraper is caught and leaves documents empty.
AfterCrawlAlwaysRead(rq, out) ==
    [rq EXCEPT !.pc = "fallback",
               !.browser_docs = IF out.status = "returned" THEN out.documents ELSE <<>>]

AfterCrawl(rq, out) ==
    IF out.status = "returned" /\ out.documents # <<>>
    THEN [rq EXCEPT !.pc = "insert", !.browser_docs = out.documents,
                    !.documents = out.documents, !.use_browser = TRUE, !.next = 1]
    ELSE [rq EXCEPT !.pc = "fallback"]

\* The scraper returns (or raises) and the handler runs on to its next
\* await, the web being one of `webs`.
InitializeCrawledOn(r, webs) ==
    /\ req[r].pc = "crawl"
    /\ \E launch_ok \in BOOLEAN, web \in webs :
         req' = [req EXCEPT ![r] =
                   AfterCrawl(@, ScrapeWithBrowserSync(req[r].url, MaxLinksArg, MaxDepthArg,
                                                       launch_ok, web))]
    /\ UNCHANGED <<loaded_urls, knowledge_loaded, collection, response, crawl, scan>>

InitializeCrawled(r) == InitializeCrawledOn(r, ApiWebs)

\* The documents built from regular_docs: each carries the request's url.
ReaderDocs(url, texts) == [ k \in 1..Len(texts) |-> Doc(url, 0, texts[k]) ]

\* "if not documents: raise HTTPException(400, "No content could be extracted...")"
NoContent(rq) == rq.documents = <<>>

\* website_reader.async_read returns (or raises, which is caught), the
\* handler converts the documents and runs on to the first add_content_async.
InitializeRead(r) ==
    /\ req[r].pc = "fallback"
    /\ \E raised \in BOOLEAN, texts \in SeqsUpTo({10, 51}, MaxReaderDocs) :
         LET rq == [req[r] EXCEPT !.documents =
                        IF raised THEN <<>> ELSE ReaderDocs(req[r].url, texts)]
         IN
         IF NoContent(rq)
         THEN /\ req' = [req EXCEPT ![r] = Idle]
              /\ response' = Response("initialize", rq.url, 400, "No content", 0, FALSE, FALSE)
         ELSE /\ req' = [req EXCEPT ![r] = [rq EXCEPT !.pc = "insert", !.next = 1]]
              /\ response' = response
    /\ UNCHANGED <<loaded_urls, knowledge_loaded, collection, crawl, scan>>

\* doc_metadata['url'] = doc.get('url', url)
SourceUrl(rq, doc) == doc.url

\* One "await agent.knowledge.add_content_async(...)": the collection is
\* created when it is not there and one point is written under an id of the
\* store's choosing, or the call raises and the handler answers 500.
InitializeAdd(r) ==
    /\ req[r].pc = "insert"
    /\ LET rq  == req[r]
           doc == rq.documents[rq.next]
       IN
       \/ /\ \E id \in PointIds \ IdsOf(collection.points) :
               collection' = [exists |-> TRUE,
                              points |-> collection.points \cup {Point(id, SourceUrl(rq, doc))}]
          /\ req' = [req EXCEPT ![r] =
                       IF rq.next = Len(rq.documents)
                       THEN [rq EXCEPT !.pc = "finish"]
                       ELSE [rq EXCEPT !.next = @ + 1]]
          /\ response' = response
       \/ /\ collection' = collection
          /\ req' = [req EXCEPT ![r] = Idle]
          /\ response' = Response("initialize", rq.url, 500, "Error loading knowledge base",
                                  0, FALSE, FALSE)
    /\ UNCHANGED <<loaded_urls, knowledge_loaded, crawl, scan>>

TrackAlways(urls, url) == Append(urls, url)

\* "if url not in loaded_urls: loaded_urls.append(url)"
Track(urls, url) == IF url \in SeqRange(urls) THEN urls ELSE Append(urls, url)

FlagAfterAddKept(flag) == flag

\* "knowledge_loaded = True"
FlagAfterAdd(flag) == TRUE

\* After the last add_content_async: the flag, the registry and the answer,
\* with no await between them.
InitializeFinish(r) ==
    /\ req[r].pc = "finish"
    /\ knowledge_loaded' = FlagAfterAdd(knowledge_loaded)
    /\ loaded_urls' = Track(loaded_urls, req[r].url)
    /\ response' = Response("initialize", req[r].url, 200, "loaded",
                            Len(req[r].documents), req[r].use_browser, req[r].fresh)
    /\ req' = [req EXCEPT ![r] = Idle]
    /\ UNCHANGED <<collection, crawl, scan>>

\* -------------------------------------------------------------- /remove-url

\* loaded_urls.remove(url): the first occurrence goes.
RECURSIVE ListRemove(_, _)
ListRemove(urls, url) ==
    IF urls = <<>> THEN <<>>
    ELSE IF Head(urls) = url THEN Tail(urls)
    ELSE <<Head(urls)>> \o ListRemove(Tail(urls), url)

FlagAfterRemoveKept(flag, urls) == flag

RegisteredAlways(urls, url) == TRUE

\* "url not in loaded_urls" decides the 404.
Registered(urls, url) == url \in SeqRange(urls)

\* "if len(loaded_urls) == 0: knowledge_loaded = False"
FlagAfterRemove(flag, urls) == IF Len(urls) = 0 THEN FALSE ELSE flag

\* The whole handler: it has no await, so no other coroutine runs inside it.
RemoveUrl(url, fail_at) ==
    /\ IF url = NoUrl
       THEN /\ response' = Response("remove", url, 400, "URL cannot be empty", 0, FALSE, FALSE)
            /\ UNCHANGED <<loaded_urls, knowledge_loaded, collection>>
       ELSE IF ~Registered(loaded_urls, url)
       THEN /\ response' = Response("remove", url, 404, "not found in loaded URLs", 0, FALSE, FALSE)
            /\ UNCHANGED <<loaded_urls, knowledge_loaded, collection>>
       ELSE
         LET sc == RemoveScan(ScanNew(collection.exists, collection.points), url, fail_at)
         IN
         /\ collection' = [collection EXCEPT !.points = sc.points]
         /\ IF sc.raised
            THEN /\ response' = WithCalls(Response("remove", url, 500, "Error removing URL",
                                                   0, FALSE, FALSE), sc.calls)
                 /\ UNCHANGED <<loaded_urls, knowledge_loaded>>
            ELSE /\ loaded_urls' = ListRemove(loaded_urls, url)
                 /\ knowledge_loaded' = FlagAfterRemove(knowledge_loaded, loaded_urls')
                 /\ response' = WithCalls(Response("remove", url, 200, "removed",
                                                   sc.deleted_count, FALSE, FALSE), sc.calls)
    /\ UNCHANGED <<req, crawl, scan>>

\* ---------------------------------------------------- /clear-knowledge-base

\* The whole handler: it has no await either.
ClearKnowledgeBase(fail_at) ==
    LET sc == ClearDelete(ClearScan(ScanNew(collection.exists, collection.points), fail_at),
                             fail_at)
    IN
    /\ collection' = [collection EXCEPT !.points = sc.points]
    /\ IF sc.raised
       THEN /\ response' = WithCalls(Response("clear", NoUrl, 500,
                                              "Error clearing knowledge base",
                                              0, FALSE, FALSE), sc.calls)
            /\ UNCHANGED <<loaded_urls, knowledge_loaded>>
       ELSE /\ loaded_urls' = <<>>
            /\ knowledge_loaded' = FALSE
            /\ response' = WithCalls(Response("clear", NoUrl, 200, "cleared",
                                              Len(sc.all_point_ids), FALSE, FALSE), sc.calls)
    /\ UNCHANGED <<req, crawl, scan>>

\* ---------------------------------------------------------- /knowledge-base

LoadedAlways(flag) == TRUE

LoadedNever(flag) == FALSE

\* "if not knowledge_loaded: raise HTTPException(400, "Knowledge base not
\* loaded...")", ahead of the try and of any client call.
Loaded(flag) == flag

\* The limit and offset query parameters of GET /knowledge-base.
BrowseLimits == {1, 2}
BrowseOffsets == {0, 2}

\* The whole handler (no await): the flag, then get_collection, whose
\* exception answers an empty listing, then one scroll.
GetKnowledgeBase(limit, offset, fail_at) ==
    /\ IF ~Loaded(knowledge_loaded)
       THEN response' = Response("browse", NoUrl, 400, "Knowledge base not loaded",
                                 0, FALSE, FALSE)
       ELSE IF ~collection.exists \/ Raises(1, fail_at)
       THEN response' = WithCalls(Response("browse", NoUrl, 200, "chunks", 0, FALSE, FALSE), 1)
       ELSE IF Raises(2, fail_at)
       THEN response' = WithCalls(Response("browse", NoUrl, 500,
                                           "Error retrieving knowledge base",
                                           0, FALSE, FALSE), 2)
       ELSE response' = WithCalls(Response("browse", NoUrl, 200, "chunks",
                                           Len(Scroll(collection.points, limit, offset).points),
                                           FALSE, FALSE), 2)
    /\ UNCHANGED <<loaded_urls, knowledge_loaded, collection, req, crawl, scan>>

\* ------------------------------------------------------- the scan loops

\* A store stub for the scan loops run on their own. One whose cursor does
\* not advance answers a scroll at a cursor with that page and the same
\* cursor again.
StubScroll(pts, limit, offset, advancing) ==
    LET res == Scroll(pts, limit, offset) IN
    IF advancing \/ offset = NoOffset \/ res.points = <<>> THEN res
    ELSE [res EXCEPT !.next_page_offset = offset]

\* One run of a handler's store part: which handler (op), the url it was
\* asked to remove, which client call raises, whether the store's cursors
\* advance, the ids the collection held at the start, and the loop's locals.
ScanOf(op, url, fail_at, advancing, pts) ==
    [ op |-> op, url |-> url, fail_at |-> fail_at, advancing |-> advancing,
      start |-> IdsOf(pts), sc |-> ScanNew(TRUE, pts) ]

NoScan == ScanOf("none", NoUrl, 0, TRUE, {})

\* The collections a scan is run against: any points of U1 and U2 under ids
\* up to MaxScanPoints.
ScanCollections ==
    UNION { { { Point(i, f[i]) : i \in ids } : f \in [ids -> {U1, U2}] }
            : ids \in SUBSET (1..MaxScanPoints) }

ScanRunning == scan.op # "none" /\ ~scan.sc.raised

\* The handler has left its store part: it raised, or remove_url's loop
\* broke, or clear_knowledge_base is past its delete.
ScanFinished ==
    \/ scan.sc.raised
    \/ scan.op = "remove" /\ scan.sc.at = "done"
    \/ scan.op = "clear" /\ scan.sc.at = "end"

ScanScroll ==
    /\ ScanRunning
    /\ scan.sc.at = "scroll"
    /\ scan' = [scan EXCEPT !.sc =
                   ScrollCall(@, scan.fail_at,
                              StubScroll(scan.sc.points, ScrollLimit, scan.sc.offset,
                                         scan.advancing))]
    /\ UNCHANGED <<api_vars, crawl>>

ScanRemovePage ==
    /\ ScanRunning
    /\ scan.op = "remove"
    /\ scan.sc.at = "page"
    /\ scan' = [scan EXCEPT !.sc = RemovePage(@, scan.url, scan.fail_at)]
    /\ UNCHANGED <<api_vars, crawl>>

ScanClearPage ==
    /\ ScanRunning
    /\ scan.op = "clear"
    /\ scan.sc.at = "page"
    /\ scan' = [scan EXCEPT !.sc = ClearPage(@)]
    /\ UNCHANGED <<api_vars, crawl>>

ScanClearDelete ==
    /\ ScanRunning
    /\ scan.op = "clear"
    /\ scan.sc.at = "done"
    /\ scan' = [scan EXCEPT !.sc = [ClearDelete(@, scan.fail_at) EXCEPT !.at = "end"]]
    /\ UNCHANGED <<api_vars, crawl>>

\* --------------------------------------------------------- specifications

\* Spec: a request arrives only when no other is being served.
Init ==
    /\ InitApi
    /\ crawl = CrawlNew(U1, MaxLinksArg, MaxDepthArg)
    /\ scan = NoScan

Next ==
    \/ \E url \in RequestUrls : AllIdle /\ Initialize("r1", url)
    \/ \E r \in Reqs : InitializeCrawled(r)
    \/ \E r \in Reqs : InitializeRead(r)
    \/ \E r \in Reqs : InitializeAdd(r)
    \/ \E r \in Reqs : InitializeFinish(r)
    \/ \E url \in RequestUrls, fail_at \in FailAts : AllIdle /\ RemoveUrl(url, fail_at)
    \/ \E fail_at \in FailAts : AllIdle /\ ClearKnowledgeBase(fail_at)
    \/ \E limit \in BrowseLimits, offset \in BrowseOffsets, fail_at \in 0..2 :
         AllIdle /\ GetKnowledgeBase(limit, offset, fail_at)

Spec == Init /\ [][Next]_vars

\* SpecConc: requests arrive at any time; the two /initialize coroutines
\* interleave at their awaits, /remove-url and /clear-knowledge-base run
\* between any two of their steps. The second coroutine is entered only while
\* the first is in flight, and for U1; the web serves pages without links,
\* and web and reader give a request at most MaxConcDocs documents, each
\* above the threshold.
MaxConcDocs == 1

ConcWebs == [{U1, U2} -> {OkPage(51, <<>>), FailPage("goto")}]

ConcDocuments(r) ==
    /\ Len(req'[r].documents) <= MaxConcDocs
    /\ \A k \in 1..Len(req'[r].documents) : Substantial(req'[r].documents[k].text)

NextConc ==
    \/ \E url \in {U1, U2} : Initialize("r1", url)
    \/ req["r1"].pc # "idle" /\ Initialize("r2", U1)
    \/ \E r \in Reqs : InitializeCrawledOn(r, ConcWebs)
    \/ \E r \in Reqs : InitializeRead(r) /\ ConcDocuments(r)
    \/ \E r \in Reqs : InitializeAdd(r)
    \/ \E r \in Reqs : InitializeFinish(r)
    \/ \E url \in {U1, U2}, fail_at \in 0..1 : RemoveUrl(url, fail_at)
    \/ \E fail_at \in 0..1 : ClearKnowledgeBase(fail_at)

SpecConc == Init /\ [][NextConc]_vars

\* SpecCrawl: one call of _scrape_with_browser_sync on U1 with any arguments
\* up to the handler's, the web choosing the page at every fetch.
InitCrawl ==
    /\ InitApi
    /\ \E ml \in 1..MaxLinksArg, md \in 0..MaxDepthArg :
         crawl = CrawlNew(U1, ml, md)
    /\ scan = NoScan

CrawlLaunch ==
    /\ crawl.status = "new"
    /\ \E ok \in BOOLEAN : crawl' = Launch(crawl, ok)
    /\ UNCHANGED <<api_vars, scan>>

CrawlScrapePage ==
    /\ crawl.status = "running"
    /\ crawl.stack # <<>>
    /\ Top(crawl).kind = "call"
    /\ \E page \in Pages : crawl' = ScrapePage(crawl, page)
    /\ UNCHANGED <<api_vars, scan>>

CrawlFollowLink ==
    /\ crawl.status = "running"
    /\ crawl.stack # <<>>
    /\ Top(crawl).kind = "loop"
    /\ crawl' = FollowLink(crawl)
    /\ UNCHANGED <<api_vars, scan>>

CrawlReturn ==
    /\ crawl.status = "running"
    /\ crawl.stack = <<>>
    /\ crawl' = Return(crawl)
    /\ UNCHANGED <<api_vars, scan>>

NextCrawl ==
    \/ CrawlLaunch
    \/ CrawlScrapePage
    \/ CrawlFollowLink
    \/ CrawlReturn

SpecCrawl == InitCrawl /\ [][NextCrawl]_vars

\* SpecCrawlLive: a crawl that has been started runs on: the thread of the
\* pool that executes _scrape_with_browser_sync is not suspended for ever.
SpecCrawlLive == SpecCrawl /\ WF_vars(NextCrawl)

\* SpecScan: the store part of one /remove-url of U1 or of one
\* /clear-knowledge-base, a turn of the loop at a time, against any collection
\* and against stores whose cursors advance or do not.
InitScan ==
    /\ InitApi
    /\ crawl = CrawlNew(U1, MaxLinksArg, MaxDepthArg)
    /\ \E op \in {"remove", "clear"}, fail_at \in FailAts, advancing \in BOOLEAN,
          pts \in ScanCollections :
         scan = ScanOf(op, IF op = "remove" THEN U1 ELSE NoUrl, fail_at, advancing, pts)

NextScan ==
    \/ ScanScroll
    \/ ScanRemovePage
    \/ ScanClearPage
    \/ ScanClearDelete

SpecScan == InitScan /\ [][NextScan]_vars

\* SpecScanLive: a handler that has been entered runs on to its return or to
\* its next call: both handlers are coroutines without an await.
SpecScanLive == SpecScan /\ WF_vars(NextScan)

\* ------------------------------------------------------------- properties

\* C1: a /remove-url of u that directly follows a successful /initialize of u
\* (begun with no point of u in the collection) reports as many deleted
\* documents as the /initialize reported indexed, and u leaves the registry.
C1_RoundTrip ==
    [][ \A u \in {U1, U2} :
          ( /\ AllIdle
            /\ response.op = "initialize" /\ response.status = 200
            /\ response.url = u /\ response.fresh
            /\ RemoveUrl(u, 0) )
          => ( /\ response'.status = 200
               /\ response'.count = response.count
               /\ u \notin SeqRange(loaded_urls') ) ]_vars

\* C2: whenever no request is being served, a URL is in the registry exactly
\* when the collection holds a point whose url is that URL.
C2_RegistryMatchesStore ==
    AllIdle =>
        \A u \in Urls : u \in SeqRange(loaded_urls) <=> PointsOf(collection.points, u) # {}

\* C3: within one crawl every URL is fetched at most once, whatever the link
\* graph: no two entries of the fetch log name the same URL.
C3_FetchedAtMostOnce ==
    \A i, j \in 1..Len(crawl.fetches) :
        crawl.fetches[i].url = crawl.fetches[j].url => i = j

\* C3's case: scrape_page is entered for a URL that was already fetched (a
\* cycle, a self-link or a second link to the same target), within the depth.
C3_Witness ==
    /\ crawl.status = "running"
    /\ crawl.stack # <<>>
    /\ Top(crawl).kind = "call"
    /\ Top(crawl).depth <= crawl.max_depth
    /\ Top(crawl).url \in crawl.visited_urls

\* C4: no page is fetched and no document is tagged at a depth above
\* max_depth; with max_depth = 0 a crawl that returns has fetched the seed
\* alone, exactly once, and holds at most one document, of depth 0.
C4_DepthBound ==
    /\ \A i \in 1..Len(crawl.fetches) : crawl.fetches[i].depth <= crawl.max_depth
    /\ \A i \in 1..Len(crawl.documents) : crawl.documents[i].depth <= crawl.max_depth
    /\ crawl.max_depth = 0 =>
          /\ Len(crawl.fetches) <= 1
          /\ Len(crawl.documents) <= 1
          /\ crawl.status = "returned" =>
                /\ Len(crawl.fetches) = 1
                /\ crawl.fetches[1].url = crawl.url
                /\ crawl.fetches[1].depth = 0

\* C4's case: a crawl with max_depth = 0 has returned one document from a seed
\* page that carried two anchors.
C4_Witness ==
    /\ crawl.status = "returned"
    /\ crawl.max_depth = 0
    /\ Len(crawl.documents) = 1
    /\ crawl.fetches[1].anchors = 2

\* C5: a /clear-knowledge-base that answers 200 reports the number of points
\* the collection held, leaves it empty, empties the registry and clears the
\* flag; it answers 200 whenever the collection exists and no store call
\* raises.
C5_ClearCount ==
    [][ \A f \in FailAts :
          (response'.op = "clear" /\ ClearKnowledgeBase(f))
          => ( /\ response'.status = 200 =>
                    /\ response'.count = Cardinality(collection.points)
                    /\ collection'.points = {}
                    /\ loaded_urls' = <<>>
                    /\ ~knowledge_loaded'
               /\ (f = 0 /\ collection.exists) => response'.status = 200 ) ]_vars

\* C5's case: a clear has reported more points than one scan page holds and
\* left nothing behind.
C5_Witness ==
    /\ response.op = "clear" /\ response.status = 200
    /\ response.count > ScrollLimit
    /\ collection.points = {}
    /\ loaded_urls = <<>>

\* C6: the registry never holds a URL twice; after a successful /initialize of
\* u, u is in it exactly once.
C6_NoDuplicateSources ==
    /\ \A i, j \in 1..Len(loaded_urls) : loaded_urls[i] = loaded_urls[j] => i = j
    /\ response.op = "initialize" /\ response.status = 200 =>
          Cardinality({ i \in 1..Len(loaded_urls) : loaded_urls[i] = response.url }) = 1

\* C6's case: the handler that finished last is a successful /initialize of U1
\* and U1 precedes U2 in the registry, so U1 was registered before U2, was not
\* removed since, and has now been ingested again.
C6_Witness ==
    /\ response.op = "initialize" /\ response.status = 200 /\ response.url = U1
    /\ loaded_urls = <<U1, U2>>
    /\ AllIdle

\* C7: knowledge_loaded is true exactly when the registry is not empty.
C7_FlagIffRegistry == knowledge_loaded <=> (loaded_urls # <<>>)

\* C7's case: /remove-url has just removed the last registered URL.
C7_Witness ==
    /\ response.op = "remove" /\ response.status = 200
    /\ loaded_urls = <<>>
    /\ ~knowledge_loaded
    /\ collection.points # {}

\* C8: every /initialize runs the browser scraper first; the regular reader is
\* awaited exactly when the scraper left no documents (it raised or returned
\* none); when the reader leaves none either the handler answers 400 "No
\* content" and the collection, the registry and the flag are as before.
C8_Locals ==
    \A r \in Reqs :
        /\ req[r].pc = "fallback" => req[r].browser_docs = <<>> /\ req[r].documents = <<>>
        /\ req[r].pc \in {"insert", "finish"} =>
              /\ req[r].documents # <<>>
              /\ req[r].use_browser <=> req[r].browser_docs # <<>>
              /\ req[r].use_browser => req[r].documents = req[r].browser_docs

C8_Steps ==
    \A r \in Reqs :
        /\ req[r].pc = "idle" => req'[r].pc \in {"idle", "crawl"}
        /\ req[r].pc = "crawl" => req'[r].pc \in {"crawl", "fallback", "insert"}
        /\ req[r].pc = "crawl" /\ req'[r].pc = "insert" => req'[r].use_browser
        /\ req[r].pc = "fallback" => req'[r].pc \in {"fallback", "insert", "idle"}
        /\ req[r].pc = "fallback" /\ req'[r].pc = "insert" =>
              ~req'[r].use_browser /\ req'[r].documents # <<>>
        /\ req[r].pc = "fallback" /\ req'[r].pc = "idle" =>
              /\ response'.op = "initialize" /\ response'.status = 400
              /\ response'.detail = "No content" /\ response'.url = req[r].url
              /\ UNCHANGED <<collection, loaded_urls, knowledge_loaded>>
        /\ req'[r].pc = "fallback" => req[r].pc \in {"crawl", "fallback"}

C8_SelectionOrder == []C8_Locals /\ [][C8_Steps]_vars

\* C8's case: scraper and reader have both left no documents for a request
\* that arrived while the registry and the collection were not empty.
C8_Witness ==
    /\ response.op = "initialize" /\ response.detail = "No content"
    /\ loaded_urls # <<>>
    /\ collection.points # {}
    /\ AllIdle

\* C9: a rejected record does not fail the /initialize of a batch of several
\* documents: while the handler is adding them, no step ends it with a 500.
C9_PartialIngestion ==
    [][ \A r \in Reqs :
          (req[r].pc = "insert" /\ Len(req[r].documents) > 1)
          => ~(req'[r].pc = "idle" /\ response'.status = 500) ]_vars

\* C10: on a collection without points, created or not, /clear-knowledge-base
\* and /remove-url of a registered URL answer 200 with a count of 0 and update
\* the registry, provided no store call fails for another reason.
C10_EmptyOrMissingCollection ==
    [][ (AllIdle /\ collection.points = {}) =>
          /\ ClearKnowledgeBase(0) =>
                /\ response'.status = 200 /\ response'.count = 0
                /\ loaded_urls' = <<>> /\ ~knowledge_loaded'
          /\ \A u \in SeqRange(loaded_urls) :
                RemoveUrl(u, 0) =>
                  /\ response'.status = 200 /\ response'.count = 0
                  /\ u \notin SeqRange(loaded_urls') ]_vars

\* C11: a /remove-url of a URL that is not in the registry answers 404 after
\* no store call at all and leaves the registry, the flag and the collection
\* as they were, whatever the store would have done; so does a second
\* /remove-url of a URL directly after a successful one.
C11_NotFoundBeforeStore ==
    [][ response'.op = "remove" =>
          \A u \in RequestUrls \ {NoUrl}, f \in FailAts :
            ( /\ RemoveUrl(u, f)
              /\ \/ u \notin SeqRange(loaded_urls)
                 \/ response.op = "remove" /\ response.status = 200 /\ response.url = u )
            => ( /\ response'.status = 404
                 /\ response'.calls = 0
                 /\ UNCHANGED <<loaded_urls, knowledge_loaded, collection>> ) ]_vars

\* C11's case: a /remove-url has answered 404 for a URL of which the
\* collection holds a point, while another URL is registered.
C11_Witness ==
    /\ response.op = "remove" /\ response.status = 404
    /\ PointsOf(collection.points, response.url) # {}
    /\ loaded_urls # <<>>
    /\ knowledge_loaded

\* C12: the document an /initialize is about to hand to the store has more
\* than 50 characters of content, whether the scraper or the regular reader
\* produced it.
C12_MinimumSignal ==
    \A r \in Reqs :
        req[r].pc = "insert" => Substantial(req[r].documents[req[r].next].text)

\* C13: every fetch, whether it raises or delivers a page with or without
\* substantial text, leaves the crawl running and leaves the callers of the
\* activation, with the links they have still to follow, as they were; a
\* fetch that raises adds no document and ends its activation; every
\* document comes from a fetch that delivered a page; a crawl whose seed
\* could not be fetched returns no document.
C13_Steps ==
    Len(crawl'.fetches) = Len(crawl.fetches) + 1 =>
        LET fetch == crawl'.fetches[Len(crawl'.fetches)] IN
        /\ crawl'.status = "running"
        /\ Len(crawl'.stack) >= Len(crawl.stack) - 1
        /\ SubSeq(crawl'.stack, 1, Len(crawl.stack) - 1)
               = SubSeq(crawl.stack, 1, Len(crawl.stack) - 1)
        /\ fetch.result # "ok" =>
              /\ crawl'.documents = crawl.documents
              /\ Len(crawl'.stack) = Len(crawl.stack) - 1
        /\ fetch.result = "ok" =>
              \/ crawl'.documents = crawl.documents
              \/ \E t \in TextLens :
                    /\ Substantial(t)
                    /\ crawl'.documents =
                          Append(crawl.documents, Doc(fetch.url, fetch.depth, t))

C13_Documents ==
    /\ crawl.status \in {"running", "returned"} \/ crawl.fetches = <<>>
    /\ \A k \in 1..Len(crawl.documents) :
          \E i \in 1..Len(crawl.fetches) :
            /\ crawl.fetches[i].url = crawl.documents[k].url
            /\ crawl.fetches[i].result = "ok"
    /\ (crawl.fetches # <<>> /\ crawl.fetches[1].result # "ok") =>
          /\ crawl.documents = <<>>
          /\ Len(crawl.fetches) = 1
          /\ crawl.stack = <<>>

C13_PageFailureNonFatal == []C13_Documents /\ [][C13_Steps]_vars

\* C13's case: the crawl has returned a document of a page that was fetched
\* after the fetch of an earlier link of the same parent had raised.
C13_Witness ==
    /\ crawl.status = "returned"
    /\ \E i, j \in 1..Len(crawl.fetches) :
          /\ i < j
          /\ crawl.fetches[i].result # "ok"
          /\ crawl.fetches[i].depth = 1 /\ crawl.fetches[j].depth = 1
          /\ \E k \in 1..Len(crawl.documents) :
                crawl.documents[k].url = crawl.fetches[j].url

\* C14: while the collection has not been created, GET /knowledge-base
\* answers 400 "Knowledge base not loaded" without a single store call.
C14_BrowseBeforeIngestion ==
    (response.op = "browse" /\ ~collection.exists) =>
        /\ response.status = 400
        /\ response.detail = "Knowledge base not loaded"
        /\ response.calls = 0

\* C14's case: GET /knowledge-base has been answered while the collection
\* did not exist.
C14_Witness ==
    /\ response.op = "browse"
    /\ ~collection.exists
    /\ loaded_urls = <<>>

\* C15: a remove_url scan over a store whose cursors advance looks at no point
\* twice and at no point that was not there when it began, and when its loop
\* has ended without a raise it has looked at every point that was there,
\* although it deletes the matching points of each page before the next scroll.
C15_ExaminedExactlyOnce ==
    (scan.op = "remove" /\ scan.advancing) =>
        /\ scan.sc.repeated = {}
        /\ scan.sc.examined \subseteq scan.start
        /\ (scan.sc.at = "done" /\ ~scan.sc.raised) =>
              /\ scan.sc.examined = scan.start
              /\ scan.sc.points = { p \in scan.sc.points : p.url # scan.url }
              /\ scan.sc.deleted_count + Cardinality(scan.sc.points) = Cardinality(scan.start)

\* C15's case: a remove_url scan over three pages has ended after deleting
\* points on its way and leaving others.
C15_Witness ==
    /\ scan.op = "remove" /\ scan.advancing
    /\ scan.sc.at = "done" /\ ~scan.sc.raised
    /\ Cardinality(scan.start) > 2 * ScrollLimit
    /\ scan.sc.deleted_count >= 2
    /\ scan.sc.points # {}

\* C16: every scan loop ends, whether or not the store's cursors advance:
\* the handler leaves its store part.
C16_ScanTerminates == <>ScanFinished

\* The part of C16 that holds: over a store whose cursors advance every scan
\* loop ends.
C16_AdvancingTerminates == scan.advancing => <>ScanFinished

\* C17: a crawl that is running returns, whatever pages the web serves; a URL
\* is in visited_urls from the step that fetches it, before any of its links
\* is followed, and a step fetches only a URL that was not in visited_urls.
C17_Visited ==
    /\ \A i \in 1..Len(crawl.fetches) : crawl.fetches[i].url \in crawl.visited_urls
    /\ \A k \in 1..Len(crawl.stack) :
          crawl.stack[k].kind = "loop" => crawl.stack[k].url \in crawl.visited_urls
    /\ Cardinality(crawl.visited_urls) = Len(crawl.fetches)

C17_Steps ==
    Len(crawl'.fetches) = Len(crawl.fetches) + 1 =>
        LET fetch == crawl'.fetches[Len(crawl'.fetches)] IN
        /\ fetch.url \notin crawl.visited_urls
        /\ crawl'.visited_urls = crawl.visited_urls \cup {fetch.url}

C17_CrawlTerminates ==
    /\ (crawl.status = "running") ~> (crawl.status = "returned")
    /\ []C17_Visited
    /\ [][C17_Steps]_vars

\* C17's case: the links have led back to the seed: scrape_page is entered
\* for the seed URL at depth 2.
C17_Witness ==
    /\ crawl.status = "running"
    /\ crawl.stack # <<>>
    /\ Top(crawl).kind = "call"
    /\ Top(crawl).url = crawl.url
    /\ Top(crawl).depth = 2

\* C18: the browser is open exactly while the crawl runs: it is launched
\* once, closed once, by the step that returns, and a crawl that has returned
\* holds neither the browser nor a page, also after fetches that raised.
C18_Held ==
    /\ crawl.status = "new" => crawl.browser = "none"
    /\ crawl.status = "raised" => crawl.browser = "none"
    /\ crawl.status = "running" => crawl.browser = "open"
    /\ crawl.status = "returned" => crawl.browser = "closed" /\ crawl.pages = 0

C18_Steps ==
    crawl'.browser # crawl.browser =>
        \/ crawl.browser = "none" /\ crawl'.browser = "open" /\ crawl.status = "new"
        \/ /\ crawl.browser = "open" /\ crawl'.browser = "closed"
           /\ crawl.status = "running" /\ crawl'.status = "returned"

C18_BrowserReleased == []C18_Held /\ [][C18_Steps]_vars

\* C18's case: a crawl has returned after new_page raised for one page and
\* goto for another.
C18_Witness ==
    /\ crawl.status = "returned"
    /\ crawl.browser = "closed"
    /\ \E i, j \in 1..Len(crawl.fetches) :
          crawl.fetches[i].result = "new_page" /\ crawl.fetches[j].result = "goto"

\* The URLs among `links` that scrape_page calls itself for when it goes
\* through them: those that resolve and pass its same-domain test, in order.
RECURSIVE Followed(_, _)
Followed(links, page_url) ==
    IF links = <<>> THEN <<>>
    ELSE LET u == Resolve(Head(links), page_url) IN
         (IF u # NoUrl /\ SameDomain(u, page_url) THEN <<u>> ELSE <<>>)
            \o Followed(Tail(links), page_url)

\* C19: when scrape_page goes on to follow the links of a page, the URLs it
\* calls itself for are the first max_links of the page's links to its own
\* site, in document order: links elsewhere and hrefs that do not resolve
\* take none of the max_links places. (Same site is taken as scrape_page
\* takes it, by netloc.)
C19_LinkSelection ==
    [][ ( /\ Len(crawl'.fetches) = Len(crawl.fetches) + 1
          /\ Len(crawl'.stack) = Len(crawl.stack)
          /\ Top(crawl').kind = "loop" )
        => \A page \in Pages :
             crawl' = ScrapePage(crawl, page) =>
               Followed(Top(crawl').links, Top(crawl').url)
                 = Prefix(Followed(page.links, Top(crawl').url), crawl.max_links)
      ]_vars

\* Same origin: scheme and host are the same.
SameOrigin(a, b) == a.scheme = b.scheme /\ a.netloc = b.netloc

\* C20: scrape_page goes on to the links of a page only when the depth of the
\* page is below max_depth and, the page's own document counted, fewer than
\* 2 * max_links documents are held; it then has at most max_links links to
\* go through, calls itself once per link at most, one level deeper, and for
\* no URL of another origin.
C20_Budget ==
    /\ ( /\ Len(crawl'.fetches) = Len(crawl.fetches) + 1
         /\ Len(crawl'.stack) = Len(crawl.stack) )
       => /\ Top(crawl').kind = "loop"
          /\ Top(crawl).depth < crawl.max_depth
          /\ Len(crawl'.documents) < 2 * crawl.max_links
          /\ Len(Top(crawl').links) <= crawl.max_links
    /\ ( /\ Len(crawl'.fetches) = Len(crawl.fetches) + 1
         /\ \/ Top(crawl).depth >= crawl.max_depth
            \/ Len(crawl'.documents) >= 2 * crawl.max_links )
       => Len(crawl'.stack) = Len(crawl.stack) - 1
    /\ Len(crawl'.stack) = Len(crawl.stack) + 1
       => /\ crawl.status = "running" =>
                /\ Top(crawl).kind = "loop"
                /\ Top(crawl').kind = "call"
                /\ Top(crawl').depth = Top(crawl).depth + 1
                /\ Len(crawl'.stack[Len(crawl.stack)].links) = Len(Top(crawl).links) - 1

C20_NoCrossOrigin ==
    (crawl.status = "running" /\ Len(crawl'.stack) = Len(crawl.stack) + 1)
        => SameOrigin(Top(crawl').url, Top(crawl).url)

C20_TraversalBudget == [][C20_Budget /\ C20_NoCrossOrigin]_vars

\* The part of C20 that holds: the budget, without the origin of the links.
C20_BudgetHolds == [][C20_Budget]_vars

\* The registry without every occurrence of url, the others in their order.
RECURSIVE Without(_, _)
Without(urls, url) ==
    IF urls = <<>> THEN <<>>
    ELSE (IF Head(urls) = url THEN <<>> ELSE <<Head(urls)>>) \o Without(Tail(urls), url)

C22_StoreFailure ==
    [][ /\ (response'.op = "remove" /\ response'.url # NoUrl) =>
              \A f \in FailAts :
                RemoveUrl(response'.url, f) =>
                  /\ (f # 0 /\ response'.calls >= f) => response'.status = 500
                  /\ response'.status = 500 =>
                        /\ UNCHANGED <<loaded_urls, knowledge_loaded>>
                        /\ response'.url \in SeqRange(loaded_urls')
        /\ response'.op = "clear" =>
              \A f \in FailAts :
                ClearKnowledgeBase(f) =>
                  /\ (f # 0 /\ response'.calls >= f) => response'.status = 500
                  /\ response'.status = 500 => UNCHANGED <<loaded_urls, knowledge_loaded>>
      ]_vars

\* C22's case: a /remove-url has answered 500 at its third store call, after
\* a scroll and a delete or a second scroll that went through, and its URL is
\* still registered.
C22_Witness ==
    /\ response.op = "remove" /\ response.status = 500
    /\ response.calls = 3
    /\ response.url \in SeqRange(loaded_urls)
    /\ knowledge_loaded
    /\ Cardinality(collection.points) < MaxPoints

\* C23: however two /initialize requests interleave at their awaits with
\* each other and with /remove-url and /clear-knowledge-base, the registry
\* never holds a URL twice and knowledge_loaded is true exactly when the
\* registry is not empty.
C23_ConcurrentRegistry ==
    /\ \A i, j \in 1..Len(loaded_urls) : loaded_urls[i] = loaded_urls[j] => i = j
    /\ knowledge_loaded <=> (loaded_urls # <<>>)

\* C23's case: two /initialize of the same URL are both past their last
\* add_content_async, about to set the flag and to register the URL, after
\* a /clear-knowledge-base that answered while they were in flight.
C23_Witness ==
    /\ req["r1"].pc = "finish" /\ req["r2"].pc = "finish"
    /\ req["r1"].url = req["r2"].url
    /\ response.op = "clear" /\ response.status = 200
    /\ collection.points # {}

\* C24: GET /knowledge-base answers 400 "Knowledge base not loaded", after no
\* store call, exactly when knowledge_loaded is false, and makes a store call
\* otherwise; the flag is true after a successful /initialize and false
\* after a successful /clear-knowledge-base or /remove-url of the last URL,
\* whatever the collection holds.
C24_Flag ==
    /\ (response.op = "initialize" /\ response.status = 200) => knowledge_loaded
    /\ (response.op = "clear" /\ response.status = 200) => ~knowledge_loaded
    /\ (response.op = "remove" /\ response.status = 200) =>
          (knowledge_loaded <=> loaded_urls # <<>>)

C24_Steps ==
    response'.op = "browse" =>
        \A limit \in BrowseLimits, offset \in BrowseOffsets, fail_at \in 0..2 :
            GetKnowledgeBase(limit, offset, fail_at) =>
              /\ ~knowledge_loaded =>
                    /\ response'.status = 400
                    /\ response'.detail = "Knowledge base not loaded"
                    /\ response'.calls = 0
              /\ knowledge_loaded =>
                    /\ response'.status # 400
                    /\ response'.calls >= 1

C24_BrowseFollowsFlag == []C24_Flag /\ [][C24_Steps]_vars

\* C24's case: GET /knowledge-base has answered 400 although the collection
\* exists and holds points: the last URL was removed and points stored under
\* other URLs stayed.
C24_Witness ==
    /\ response.op = "browse" /\ response.status = 400
    /\ collection.exists
    /\ collection.points # {}
    /\ ~knowledge_loaded

====
